---- MODULE Spec2Model ----
(***************************************************************************)
(* Model of the login ceremony of the webauthn package (BeginLogin,        *)
(* FinishLogin) and of protocol.CollectedClientData.Verify, both in        *)
(* src/webauthn/login.go.                                                  *)
(*                                                                         *)
(* Representation of Go values:                                            *)
(*   []byte              a sequence of integers in 0..255                  *)
(*   challenge text      a sequence of character codes (ASCII)             *)
(*   origin text         a sequence of one-character strings               *)
(*   error               a record [type, details, info]; NoError for nil   *)
(***************************************************************************)
EXTENDS Integers, Sequences, FiniteSets, TLC

\* ------------------------------------------------------------------------
\* Bounds of the model
\* ------------------------------------------------------------------------
\* longest stored challenge (bytes)
MaxChallengeLen == 2
\* longest list of option modifiers passed to BeginLogin
MaxOpts == 2
\* most SessionData values the caller's session store holds at once
MaxSessions == 2

\* ------------------------------------------------------------------------
\* Sequence helpers
\* ------------------------------------------------------------------------
SeqsUpTo(S, n) == UNION {[1..k -> S] : k \in 0..n}

Zeros(n) == [i \in 1..n |-> 0]

Drop(s, n) == SubSeq(s, n + 1, Len(s))

Take(s, n) == SubSeq(s, 1, n)

\* strings.HasPrefix
HasPrefix(s, pre) == Len(s) >= Len(pre) /\ Take(s, Len(pre)) = pre

\* strings.IndexByte: position (1-based) of the first x in s, 0 when absent
IndexOf(s, x) ==
    IF \E i \in 1..Len(s) : s[i] = x
    THEN CHOOSE i \in 1..Len(s) : s[i] = x /\ \A j \in 1..(i - 1) : s[j] # x
    ELSE 0

\* strings.LastIndex for a single byte
LastIndexOf(s, x) ==
    IF \E i \in 1..Len(s) : s[i] = x
    THEN CHOOSE i \in 1..Len(s) : s[i] = x /\ \A j \in (i + 1)..Len(s) : s[j] # x
    ELSE 0

\* ------------------------------------------------------------------------
\* encoding/base64 as used by Verify (login.go:123-125)
\* ------------------------------------------------------------------------
\* character codes
PadChar == 61
InvalidIndex == 255

\* alphabet of base64.StdEncoding: A-Z a-z 0-9 + /
StdAlphabet ==
    [i \in 0..63 |->
        IF i < 26 THEN 65 + i
        ELSE IF i < 52 THEN 97 + (i - 26)
        ELSE IF i < 62 THEN 48 + (i - 52)
        ELSE IF i = 62 THEN 43 ELSE 47]

\* alphabet of base64.URLEncoding: A-Z a-z 0-9 - _
URLAlphabet ==
    [i \in 0..63 |-> IF i = 62 THEN 45 ELSE IF i = 63 THEN 95 ELSE StdAlphabet[i]]

\* decodeMap of the standard alphabet: 6-bit value of a character, or
\* InvalidIndex for a character outside the alphabet
StdDecodeMap(c) ==
    IF c >= 65 /\ c <= 90 THEN c - 65
    ELSE IF c >= 97 /\ c <= 122 THEN c - 97 + 26
    ELSE IF c >= 48 /\ c <= 57 THEN c - 48 + 52
    ELSE IF c = 43 THEN 62
    ELSE IF c = 47 THEN 63
    ELSE InvalidIndex

\* Encoding.EncodedLen
EncodedLen(n, padded) ==
    IF padded THEN ((n + 2) \div 3) * 4
    ELSE (n * 8 + 5) \div 6

RECURSIVE EncodeWith(_, _, _)
\* Encoding.Encode: 3 bytes become 4 characters; a remainder of 1 or 2
\* bytes becomes 2 or 3 characters, followed by padding when padded
EncodeWith(alphabet, padded, src) ==
    IF Len(src) = 0 THEN <<>>
    ELSE IF Len(src) >= 3 THEN
        LET val == src[1] * 65536 + src[2] * 256 + src[3]
        IN <<alphabet[(val \div 262144) % 64], alphabet[(val \div 4096) % 64],
             alphabet[(val \div 64) % 64], alphabet[val % 64]>>
           \o EncodeWith(alphabet, padded, Drop(src, 3))
    ELSE IF Len(src) = 2 THEN
        LET val == src[1] * 65536 + src[2] * 256
        IN <<alphabet[(val \div 262144) % 64], alphabet[(val \div 4096) % 64],
             alphabet[(val \div 64) % 64]>>
           \o (IF padded THEN <<PadChar>> ELSE <<>>)
    ELSE
        LET val == src[1] * 65536
        IN <<alphabet[(val \div 262144) % 64], alphabet[(val \div 4096) % 64]>>
           \o (IF padded THEN <<PadChar, PadChar>> ELSE <<>>)

\* base64.StdEncoding.EncodeToString
StdEncode(src) == EncodeWith(StdAlphabet, TRUE, src)

\* base64.RawStdEncoding.EncodeToString
RawStdEncode(src) == EncodeWith(StdAlphabet, FALSE, src)

\* base64.RawURLEncoding.EncodeToString, the transport encoding of a challenge
RawURLEncode(src) == EncodeWith(URLAlphabet, FALSE, src)

\* the decoder skips '\r' and '\n' wherever they occur
RemoveNewlines(s) == SelectSeq(s, LAMBDA c : c # 10 /\ c # 13)

RECURSIVE DecodeQuanta(_)
\* Encoding.Decode without padding, on text without newlines: quantum by
\* quantum; at an error the bytes of the complete quanta before it are kept
DecodeQuanta(s) ==
    LET n == IF Len(s) < 4 THEN Len(s) ELSE 4
        bad == \E i \in 1..n : StdDecodeMap(s[i]) = InvalidIndex
        v(i) == IF i <= n THEN StdDecodeMap(s[i]) ELSE 0
        val == v(1) * 262144 + v(2) * 4096 + v(3) * 64 + v(4)
        b1 == (val \div 65536) % 256
        b2 == (val \div 256) % 256
        b3 == val % 256
    IN IF n = 0 THEN [bytes |-> <<>>, ok |-> TRUE]
       ELSE IF bad \/ n = 1 THEN [bytes |-> <<>>, ok |-> FALSE]
       ELSE IF n = 2 THEN [bytes |-> <<b1>>, ok |-> TRUE]
       ELSE IF n = 3 THEN [bytes |-> <<b1, b2>>, ok |-> TRUE]
       ELSE LET rest == DecodeQuanta(Drop(s, 4))
            IN [bytes |-> <<b1, b2, b3>> \o rest.bytes, ok |-> rest.ok]

\* base64.RawStdEncoding.DecodeString: the bytes decoded and whether err is nil
RawStdDecodeString(s) == DecodeQuanta(RemoveNewlines(s))

\* ------------------------------------------------------------------------
\* net/url as used by Verify (login.go:138, 143)
\* ------------------------------------------------------------------------
Letters == {"a", "b", "c", "d", "e", "f", "g", "h", "i", "j", "k", "l", "m",
            "n", "o", "p", "q", "r", "s", "t", "u", "v", "w", "x", "y", "z",
            "A", "B", "C", "D", "E", "F", "G", "H", "I", "J", "K", "L", "M",
            "N", "O", "P", "Q", "R", "S", "T", "U", "V", "W", "X", "Y", "Z"}

Digits == {"0", "1", "2", "3", "4", "5", "6", "7", "8", "9"}

HexDigits == Digits \cup {"a", "b", "c", "d", "e", "f", "A", "B", "C", "D", "E", "F"}

\* hex digits whose value is below 8
LowHexDigits == {"0", "1", "2", "3", "4", "5", "6", "7"}

\* ASCII control characters that can be written here
CTLChars == {"\t", "\n", "\r"}

\* characters a host may hold unescaped (shouldEscape(c, encodeHost) is false)
HostChars == Letters \cup Digits \cup
             {"-", "_", ".", "~", "!", "$", "&", "'", "(", ")", "*", "+", ",",
              ";", "=", ":", "[", "]", "<", ">", "\""}

\* strings.ToLower on one character
LowerChar(c) ==
    CASE c = "A" -> "a" [] c = "B" -> "b" [] c = "C" -> "c" [] c = "D" -> "d"
      [] c = "E" -> "e" [] c = "F" -> "f" [] c = "G" -> "g" [] c = "H" -> "h"
      [] c = "I" -> "i" [] c = "J" -> "j" [] c = "K" -> "k" [] c = "L" -> "l"
      [] c = "M" -> "m" [] c = "N" -> "n" [] c = "O" -> "o" [] c = "P" -> "p"
      [] c = "Q" -> "q" [] c = "R" -> "r" [] c = "S" -> "s" [] c = "T" -> "t"
      [] c = "U" -> "u" [] c = "V" -> "v" [] c = "W" -> "w" [] c = "X" -> "x"
      [] c = "Y" -> "y" [] c = "Z" -> "z" [] OTHER -> c

ToLower(s) == [i \in 1..Len(s) |-> LowerChar(s[i])]

\* strings.Cut at a single character
CutAt(s, x) ==
    LET i == IndexOf(s, x)
    IN IF i = 0 THEN [before |-> s, after |-> <<>>, found |-> FALSE]
       ELSE [before |-> Take(s, i - 1), after |-> Drop(s, i), found |-> TRUE]

Count(s, x) == Cardinality({i \in 1..Len(s) : s[i] = x})

\* url.getScheme: the scheme before the first ':' when the text starts with
\* one, "missing protocol scheme" when the text starts with ':'
getScheme(rawURL) ==
    LET stops == {i \in 1..Len(rawURL) :
                     \/ rawURL[i] = ":"
                     \/ rawURL[i] \notin (Letters \cup Digits \cup {"+", "-", "."})
                     \/ (i = 1 /\ rawURL[i] \notin Letters)}
        i == IF stops = {} THEN 0
             ELSE CHOOSE k \in stops : \A j \in stops : k <= j
    IN IF i = 0 \/ rawURL[i] # ":"
       THEN [ok |-> TRUE, scheme |-> <<>>, rest |-> rawURL]
       ELSE IF i = 1 THEN [ok |-> FALSE, scheme |-> <<>>, rest |-> <<>>]
       ELSE [ok |-> TRUE, scheme |-> Take(rawURL, i - 1), rest |-> Drop(rawURL, i)]

\* url.validOptionalPort: empty, or ':' followed by digits only
validOptionalPort(port) ==
    \/ port = <<>>
    \/ /\ port[1] = ":"
       /\ \A i \in 2..Len(port) : port[i] \in Digits

RECURSIVE unescape(_, _)
\* url.unescape: the text with %XX escapes decoded, or an error on a
\* malformed escape and, in a host, on a character that must be escaped.
\* A decoded byte other than '%' is written as its two hex digits.
unescape(s, isHost) ==
    IF s = <<>> THEN [ok |-> TRUE, text |-> <<>>]
    ELSE IF s[1] = "%" THEN
        IF Len(s) < 3 \/ s[2] \notin HexDigits \/ s[3] \notin HexDigits
        THEN [ok |-> FALSE, text |-> <<>>]
        ELSE IF isHost /\ s[2] \in LowHexDigits /\ Take(s, 3) # <<"%", "2", "5">>
        THEN [ok |-> FALSE, text |-> <<>>]
        ELSE LET rest == unescape(Drop(s, 3), isHost)
                 ch == IF Take(s, 3) = <<"%", "2", "5">> THEN "%" ELSE s[2] \o s[3]
             IN [ok |-> rest.ok, text |-> <<ch>> \o rest.text]
    ELSE IF isHost /\ s[1] \notin HostChars
        THEN [ok |-> FALSE, text |-> <<>>]
        ELSE LET rest == unescape(Drop(s, 1), isHost)
             IN [ok |-> rest.ok, text |-> <<s[1]>> \o rest.text]

\* url.parseHost for a host that is not a bracketed IP literal
parseHost(host) ==
    LET i == LastIndexOf(host, ":")
    IN IF i # 0 /\ ~validOptionalPort(Drop(host, i - 1))
       THEN [ok |-> FALSE, text |-> <<>>]
       ELSE unescape(host, TRUE)

\* url.parseAuthority: the host[:port] after an optional userinfo@
parseAuthority(authority) ==
    LET i == LastIndexOf(authority, "@")
    IN parseHost(Drop(authority, i))

\* the URL value of a failed parse
NoURL == [ok |-> FALSE, Scheme |-> <<>>, Opaque |-> <<>>, Host |-> <<>>,
          Path |-> <<>>, RawQuery |-> <<>>]

\* url.parse(rawURL, viaRequest = false)
parseNoFragment(rawURL) ==
    LET sch == getScheme(rawURL)
        forceQuery == sch.rest # <<>> /\ sch.rest[Len(sch.rest)] = "?"
                      /\ Count(sch.rest, "?") = 1
        cut == CutAt(sch.rest, "?")
        rest == IF forceQuery THEN Take(sch.rest, Len(sch.rest) - 1) ELSE cut.before
        query == IF forceQuery THEN <<>> ELSE cut.after
        scheme == ToLower(sch.scheme)
        rooted == HasPrefix(rest, <<"/">>)
        hasAuthority == HasPrefix(rest, <<"/", "/">>)
                        /\ (scheme # <<>> \/ ~HasPrefix(rest, <<"/", "/", "/">>))
        afterSlashes == Drop(rest, 2)
        slash == IndexOf(afterSlashes, "/")
        authority == IF slash = 0 THEN afterSlashes ELSE Take(afterSlashes, slash - 1)
        pathText == IF ~hasAuthority THEN rest
                    ELSE IF slash = 0 THEN <<>> ELSE Drop(afterSlashes, slash - 1)
        host == IF hasAuthority THEN parseAuthority(authority)
                ELSE [ok |-> TRUE, text |-> <<>>]
        path == unescape(pathText, FALSE)
    IN IF \E i \in 1..Len(rawURL) : rawURL[i] \in CTLChars THEN NoURL
       ELSE IF rawURL = <<"*">>
       THEN [NoURL EXCEPT !.ok = TRUE, !.Path = <<"*">>]
       ELSE IF ~sch.ok THEN NoURL
       ELSE IF ~rooted /\ scheme # <<>>
       THEN [NoURL EXCEPT !.ok = TRUE, !.Scheme = scheme, !.Opaque = rest,
                          !.RawQuery = query]
       ELSE IF ~rooted /\ IndexOf(CutAt(rest, "/").before, ":") # 0 THEN NoURL
       ELSE IF ~host.ok \/ ~path.ok THEN NoURL
       ELSE [ok |-> TRUE, Scheme |-> scheme, Opaque |-> <<>>, Host |-> host.text,
             Path |-> path.text, RawQuery |-> query]

\* url.Parse: the fragment is cut off first and must unescape as well
Parse(rawURL) ==
    LET cut == CutAt(rawURL, "#")
        url == parseNoFragment(cut.before)
    IN IF url.ok /\ ~unescape(cut.after, FALSE).ok THEN NoURL ELSE url

\* Hostname as it would be if the path were not separated from the host
HostnameWithPath(u) == u.Host \o u.Path

\* URL.Hostname: Host without a valid port
Hostname(u) ==
    LET colon == LastIndexOf(u.Host, ":")
    IN IF colon # 0 /\ validOptionalPort(Drop(u.Host, colon - 1))
       THEN Take(u.Host, colon - 1)
       ELSE u.Host

\* URL.Port
Port(u) ==
    LET colon == LastIndexOf(u.Host, ":")
    IN IF colon # 0 /\ validOptionalPort(Drop(u.Host, colon - 1))
       THEN Drop(u.Host, colon)
       ELSE <<>>

\* ------------------------------------------------------------------------
\* protocol: CollectedClientData and its Verify (login.go:67-157)
\* ------------------------------------------------------------------------
CreateCeremony == "webauthn.create"

AssertCeremony == "webauthn.get"

CeremonyType == {CreateCeremony, AssertCeremony}

Present == "present"

Supported == "supported"

\* a nil *TokenBinding
NoTokenBinding == [Status |-> "", ID |-> "", set |-> FALSE]

\* the nil error
NoError == [type |-> "nil", details |-> "", info |-> <<>>]

\* a Go run-time panic raised inside the call (index out of range) instead
\* of a returned error
Panic == [type |-> "panic", details |-> "index out of range", info |-> <<>>]

\* p.ErrX.WithDetails(details), with info when .WithInfo(info) is returned
Error(type, details, info) ==
    [type |-> type, details |-> details, info |-> info]

\* base64.StdEncoding.Encode(dst, src): dst with the encoding of src written
\* over its start; the call panics when dst is too short for it
Encode(dst, src) ==
    IF Len(src) = 0 THEN [panic |-> FALSE, dst |-> dst]
    ELSE IF Len(dst) < EncodedLen(Len(src), TRUE) THEN [panic |-> TRUE, dst |-> dst]
    ELSE [panic |-> FALSE,
          dst |-> StdEncode(src) \o Drop(dst, EncodedLen(Len(src), TRUE))]

\* CollectedClientData.Verify, from the decoding of the challenge on
\* (login.go:123-156): the error returned and what was written to standard
\* output
VerifyChallengeAndOrigin(c, storedChallenge, relyingPartyOrigin) ==
    LET decoded == RawStdDecodeString(c.Challenge)
        clientChallengeBytes == decoded.bytes
        encoding == Encode(Zeros(Len(clientChallengeBytes)), storedChallenge)
        encodedStoredChallenge == encoding.dst
        clientDataOrigin == Parse(c.Origin)
    IN IF encoding.panic THEN [err |-> Panic, printed |-> <<>>]
       ELSE IF ~decoded.ok
       THEN [err |-> Error("ErrParsingData",
                           "Error parsing the authenticator challenge", <<>>),
             printed |-> <<>>]
       ELSE IF encodedStoredChallenge # clientChallengeBytes
       THEN [err |-> Error("ErrVerification", "Error validating challenge",
                           <<encodedStoredChallenge, clientChallengeBytes>>),
             printed |-> <<encodedStoredChallenge, clientChallengeBytes>>]
       ELSE IF ~clientDataOrigin.ok
       THEN [err |-> Error("ErrParsingData",
                           "Error decoding clientData origin as URL", <<>>),
             printed |-> <<>>]
       ELSE IF Hostname(clientDataOrigin) # relyingPartyOrigin
       THEN [err |-> Error("ErrVerification", "Error validating origin",
                           <<relyingPartyOrigin, c.Origin>>),
             printed |-> <<relyingPartyOrigin, c.Origin>>]
       ELSE [err |-> NoError, printed |-> <<>>]

\* Verify as it would be with token binding as a gate
VerifyTokenBindingRequired(c, storedChallenge, ceremony, relyingPartyOrigin) ==
    LET rest == IF c.Type # ceremony
                THEN [err |-> Error("ErrVerification",
                                    "Error validating ceremony type", <<>>),
                      printed |-> <<>>]
                ELSE VerifyChallengeAndOrigin(c, storedChallenge, relyingPartyOrigin)
    IN IF rest.err = NoError /\ c.TokenBinding.set /\ c.TokenBinding.Status = Present
       THEN [err |-> Error("ErrVerification", "Error validating token binding", <<>>),
             printed |-> <<>>]
       ELSE rest

\* Verify as it would be with the ceremony type checked after the other gates
VerifyTypeCheckedLast(c, storedChallenge, ceremony, relyingPartyOrigin) ==
    LET rest == VerifyChallengeAndOrigin(c, storedChallenge, relyingPartyOrigin)
    IN IF rest.err # NoError THEN rest
       ELSE IF c.Type # ceremony
       THEN [err |-> Error("ErrVerification", "Error validating ceremony type", <<>>),
             printed |-> <<>>]
       ELSE rest

\* CollectedClientData.Verify (login.go:105-157); the value of WithInfo at
\* line 112 is dropped
Verify(c, storedChallenge, ceremony, relyingPartyOrigin) ==
    IF c.Type # ceremony
    THEN [err |-> Error("ErrVerification", "Error validating ceremony type", <<>>),
          printed |-> <<>>]
    ELSE VerifyChallengeAndOrigin(c, storedChallenge, relyingPartyOrigin)

\* ------------------------------------------------------------------------
\* webauthn: the login ceremony (login.go:15-52)
\* ------------------------------------------------------------------------
\* the application's users; User.WebAuthnID() is the id
Users == {[id |-> <<1>>], [id |-> <<2>>]}

WebAuthnID(user) == user.id

\* webauthn.Config.Timeout
ConfigTimeout == 60000

\* the challenges the generator can hand out
GeneratedChallenges == {<<0>>, <<255>>, <<0, 255>>}

\* p.CreateChallenge(): a fresh challenge, or the failure of the entropy source
CreateChallengeOutcomes ==
    {[challenge |-> ch, err |-> NoError] : ch \in GeneratedChallenges}
    \cup {[challenge |-> <<>>,
           err |-> Error("EntropySourceFailure", "entropy source failed", <<>>)]}

\* a LoginOption is a function that writes fields of the request options:
\* here one that sets Timeout and one that sets Challenge
LoginOptions == {[field |-> "Timeout", value |-> 1000],
                 [field |-> "Challenge", value |-> <<7>>]}

\* setter(&requestOptions) for one LoginOption
ApplyOption(setter, requestOptions) ==
    [requestOptions EXCEPT ![setter.field] = setter.value]

RECURSIVE ApplyOptions(_, _)
\* for _, setter := range opts { setter(&requestOptions) }
ApplyOptions(opts, requestOptions) ==
    IF opts = <<>> THEN requestOptions
    ELSE ApplyOptions(Tail(opts), ApplyOption(Head(opts), requestOptions))

\* a nil *PublicKeyCredentialRequestOptions
NoOptions == [Challenge |-> <<>>, Timeout |-> 0, set |-> FALSE]

\* SessionData{}
EmptySessionData == [Challenge |-> <<>>, UserID |-> <<>>]

\* a nil *Credential
NoCredential == [set |-> FALSE]

\* BeginLogin as it would be with the session built from the request options
BeginLoginResultFromOptions(user, opts, created) ==
    IF created.err # NoError
    THEN [options |-> NoOptions, sessionData |-> EmptySessionData,
          err |-> created.err, applied |-> 0]
    ELSE LET requestOptions == ApplyOptions(opts,
                 [Challenge |-> created.challenge, Timeout |-> ConfigTimeout,
                  set |-> TRUE])
         IN [options |-> requestOptions,
             sessionData |-> [Challenge |-> requestOptions.Challenge,
                              UserID |-> WebAuthnID(user)],
             err |-> NoError, applied |-> Len(opts)]

\* BeginLogin as it would be without the check of the generator's error
BeginLoginResultIgnoringError(user, opts, created) ==
    LET challenge == created.challenge
        requestOptions == ApplyOptions(opts,
            [Challenge |-> challenge, Timeout |-> ConfigTimeout, set |-> TRUE])
    IN [options |-> requestOptions,
        sessionData |-> [Challenge |-> challenge, UserID |-> WebAuthnID(user)],
        err |-> NoError, applied |-> Len(opts)]

\* WebAuthn.BeginLogin: what the call returns for a generator outcome
BeginLoginResult(user, opts, created) ==
    IF created.err # NoError
    THEN [options |-> NoOptions, sessionData |-> EmptySessionData,
          err |-> created.err, applied |-> 0]
    ELSE LET challenge == created.challenge
             requestOptions == ApplyOptions(opts,
                 [Challenge |-> challenge, Timeout |-> ConfigTimeout, set |-> TRUE])
         IN [options |-> requestOptions,
             sessionData |-> [Challenge |-> challenge, UserID |-> WebAuthnID(user)],
             err |-> NoError, applied |-> Len(opts)]

\* the client data a response can carry in the ceremony
GoodOrigin == <<"h", "t", "t", "p", "s", ":", "/", "/", "a", ".", "b">>

EvilOrigin == <<"h", "t", "t", "p", "s", ":", "/", "/", "c", ".", "d">>

\* the hostname of the Relying Party, as configured
ConfigOrigin == <<"a", ".", "b">>

ResponseClientData ==
    [Type : CeremonyType,
     Challenge : {RawURLEncode(ch) : ch \in GeneratedChallenges},
     Origin : {GoodOrigin, EvilOrigin},
     TokenBinding : {NoTokenBinding}]

\* request bodies: not a credential at all, a registration response (with an
\* attestation object) or a login response (with an authenticator assertion)
Responses ==
    {[shape |-> "malformed", clientData |-> <<>>]}
    \cup [shape : {"attestation", "assertion"}, clientData : ResponseClientData]

\* p.ParseCredentialCreationResponse: the parser of registration responses
ParseCredentialCreationResponse(response) ==
    IF response.shape = "attestation"
    THEN [parsed |-> response, err |-> NoError]
    ELSE IF response.shape = "assertion"
    THEN [parsed |-> <<>>,
          err |-> Error("ErrBadRequest", "Parse error for Registration",
                        <<"missing attestation object">>)]
    ELSE [parsed |-> <<>>,
          err |-> Error("ErrBadRequest", "Parse error for Registration",
                        <<"invalid body">>)]

\* the parser FinishLogin calls at line 45 and the ceremony whose responses
\* it parses: the registration parser
ResponseParser ==
    [name |-> "ParseCredentialCreationResponse", ceremony |-> CreateCeremony]

\* WebAuthn.FinishLogin: the credential and error returned, the error value
\* built and dropped at line 42, what was printed, and which of the parser
\* and the client data verifier ran
FinishLoginResult(user, session, response) ==
    LET dropped == IF WebAuthnID(user) # session.UserID
                   THEN Error("ErrBadRequest", "ID mismatch for User and Session", <<>>)
                   ELSE NoError
        parsing == ParseCredentialCreationResponse(response)
    IN IF parsing.err # NoError
       THEN [credential |-> NoCredential,
             err |-> Error("ErrBadRequest", "fuddck", <<>>),
             dropped |-> dropped, printed |-> <<parsing.err>>,
             parserRan |-> TRUE, parser |-> ResponseParser,
             verifierRan |-> FALSE]
       ELSE [credential |-> NoCredential,
             err |-> NoError,
             dropped |-> dropped, printed |-> <<parsing.parsed>>,
             parserRan |-> TRUE, parser |-> ResponseParser,
             verifierRan |-> FALSE]

\* ------------------------------------------------------------------------
\* State
\* ------------------------------------------------------------------------
VARIABLES
    \* the SessionData values the caller's session store holds: those
    \* BeginLogin returned and nothing has invalidated since
    sessions,
    \* the last ceremony call, its arguments and what it returned
    last,
    \* the arguments of a direct call of CollectedClientData.Verify
    call,
    \* what that call returned
    result,
    \* two ceremonies run side by side: for each, the position in the call
    \* it is in and the call's arguments, local variables and return value
    procs

vars == <<sessions, last, call, result, procs>>

\* the ceremonies that run side by side
Procs == {1, 2}

NoReturn == [op |-> "none"]

\* a ceremony outside any call, with every local variable at its zero value
Idle ==
    [pc |-> "idle", user |-> [id |-> <<>>], opts |-> <<>>,
     created |-> [challenge |-> <<>>, err |-> NoError],
     requestOptions |-> NoOptions, i |-> 0,
     issued |-> EmptySessionData, session |-> EmptySessionData,
     response |-> [shape |-> "none", clientData |-> <<>>],
     parsing |-> [parsed |-> <<>>, err |-> NoError],
     dropped |-> NoError, ret |-> NoReturn, overlapped |-> FALSE]

NoCall == [op |-> "none"]

NotRun == [err |-> [type |-> "not run", details |-> "", info |-> <<>>],
           printed |-> <<>>]

Init ==
    /\ sessions = {}
    /\ last = NoCall
    /\ call = NoCall
    /\ result = NotRun
    /\ procs = [p \in Procs |-> Idle]

\* the application starts a login ceremony and stores the session
BeginLogin(user, opts) ==
    \E created \in CreateChallengeOutcomes :
        LET res == BeginLoginResult(user, opts, created)
        IN /\ res.err = NoError =>
                 (res.sessionData \in sessions \/ Cardinality(sessions) < MaxSessions)
           /\ last' = [op |-> "BeginLogin", user |-> user, opts |-> opts,
                       created |-> created, options |-> res.options,
                       sessionData |-> res.sessionData, err |-> res.err,
                       applied |-> res.applied]
           /\ sessions' = IF res.err = NoError
                          THEN sessions \cup {res.sessionData}
                          ELSE sessions
           /\ UNCHANGED <<call, result, procs>>

\* the application finishes a ceremony with a session from its store; the
\* call receives the SessionData by value and leaves the store alone
FinishLogin(user, session, response) ==
    LET res == FinishLoginResult(user, session, response)
    IN /\ session \in sessions
       /\ last' = [op |-> "FinishLogin", user |-> user, session |-> session,
                   response |-> response, credential |-> res.credential,
                   err |-> res.err, dropped |-> res.dropped,
                   printed |-> res.printed, parserRan |-> res.parserRan,
                   parser |-> res.parser, verifierRan |-> res.verifierRan]
       /\ UNCHANGED <<sessions, call, result, procs>>

Next ==
    \/ \E user \in Users, opts \in SeqsUpTo(LoginOptions, MaxOpts) :
           BeginLogin(user, opts)
    \/ \E user \in Users, session \in sessions, response \in Responses :
           FinishLogin(user, session, response)

Spec == Init /\ [][Next]_vars

\* ------------------------------------------------------------------------
\* Direct calls of CollectedClientData.Verify
\* ------------------------------------------------------------------------
\* byte values a challenge is made of
ChallengeBytes == {0, 255}

StoredChallenges == SeqsUpTo(ChallengeBytes, MaxChallengeLen)

\* the text the code accepts for a stored challenge: the unpadded standard
\* encoding of the padded standard encoding of the challenge
DoubleEncode(challenge) == RawStdEncode(StdEncode(challenge))

\* texts that are no encoding: "A", "AAAAAAAA!", and "AA\n"
JunkTexts == {<<65>>, <<65, 65, 65, 65, 65, 65, 65, 65, 33>>, <<65, 65, 10>>}

\* client challenge texts: the transport encoding of a challenge (base64url
\* without padding), its standard encoding without padding, the text the
\* code accepts, that text with a trailing zero byte encoded in, and junk
ChallengeTexts ==
    {RawURLEncode(ch) : ch \in StoredChallenges}
    \cup {RawStdEncode(ch) : ch \in StoredChallenges}
    \cup {DoubleEncode(ch) : ch \in StoredChallenges}
    \cup {RawStdEncode(StdEncode(ch) \o <<0>>) : ch \in StoredChallenges}
    \cup JunkTexts

TokenBindings ==
    {NoTokenBinding,
     [Status |-> Present, ID |-> "id", set |-> TRUE],
     [Status |-> Supported, ID |-> "", set |-> TRUE]}

https == <<"h", "t", "t", "p", "s">>

OriginSchemes == {https, <<"h", "t", "t", "p">>}

OriginHosts == {<<"a", ".", "b">>, <<"x", ".", "a", ".", "b">>}

OriginPorts == {<<>>, <<":", "8">>}

\* what follows the authority: nothing, a path, a query, a path that is a
\* malformed escape
OriginTails == {<<>>, <<"/", "p">>, <<"?", "q">>, <<"/", "%">>}

MakeOrigin(scheme, host, port, tail) ==
    scheme \o <<":", "/", "/">> \o host \o port \o tail

\* ":a", "a.b" and "https://a.b:x"
OddOrigins == {<<":", "a">>, <<"a", ".", "b">>,
               MakeOrigin(https, <<"a", ".", "b">>, <<":", "x">>, <<>>)}

Origins ==
    {MakeOrigin(s, h, p, t) :
        s \in OriginSchemes, h \in OriginHosts, p \in OriginPorts, t \in OriginTails}
    \cup OddOrigins \cup {EvilOrigin}

\* the configured origin is a hostname: line 143 compares it with Hostname()
RelyingPartyOrigins == OriginHosts

\* pairs of stored challenge and client text used to exercise the origin gate
ProbeChallenges ==
    {<<<<0>>, DoubleEncode(<<0>>)>>, <<<<>>, <<>>>>, <<<<0>>, RawURLEncode(<<0>>)>>,
     <<<<0>>, DoubleEncode(<<255>>)>>, <<<<>>, <<65>>>>}

\* the calls checked: every stored challenge with every client text on a few
\* origins, and the probe challenges with every origin and token binding
VerifyCalls ==
    {[c |-> [Type |-> t, Challenge |-> text, Origin |-> o,
             TokenBinding |-> NoTokenBinding],
      storedChallenge |-> stored, ceremony |-> ceremony,
      relyingPartyOrigin |-> ConfigOrigin] :
        t \in CeremonyType, text \in ChallengeTexts,
        o \in {GoodOrigin, EvilOrigin, <<":", "a">>},
        stored \in StoredChallenges, ceremony \in CeremonyType}
    \cup
    {[c |-> [Type |-> t, Challenge |-> probe[2], Origin |-> o, TokenBinding |-> tb],
      storedChallenge |-> probe[1], ceremony |-> ceremony,
      relyingPartyOrigin |-> rp] :
        t \in CeremonyType, probe \in ProbeChallenges, o \in Origins,
        tb \in TokenBindings, ceremony \in CeremonyType,
        rp \in RelyingPartyOrigins}

InitVerify ==
    /\ sessions = {}
    /\ last = NoCall
    /\ call \in VerifyCalls
    /\ result = NotRun
    /\ procs = [p \in Procs |-> Idle]

\* c.Verify(storedChallenge, ceremony, relyingPartyOrigin)
VerifyStep ==
    /\ result = NotRun
    /\ result' = Verify(call.c, call.storedChallenge, call.ceremony,
                        call.relyingPartyOrigin)
    /\ UNCHANGED <<sessions, last, call, procs>>

NextVerify == VerifyStep

SpecVerify == InitVerify /\ [][NextVerify]_vars

\* ------------------------------------------------------------------------
\* Properties of the ceremony (Spec)
\* ------------------------------------------------------------------------
Finished == last.op = "FinishLogin"

IDMismatch == WebAuthnID(last.user) # last.session.UserID

\* C1: when user.WebAuthnID() differs from session.UserID, FinishLogin
\* returns the ID-mismatch error and no credential, whatever the body is.
C1_UserMismatchRejected ==
    (Finished /\ IDMismatch) =>
        /\ last.err.type = "ErrBadRequest"
        /\ last.err.details = "ID mismatch for User and Session"
        /\ last.credential = NoCredential

\* C2: FinishLogin returns without an error only if the IDs matched, the
\* request parsed, and Verify ran on the response's client data with
\* session.Challenge, the Assert ceremony and the configured origin and
\* returned nil.
C2_SuccessOnlyAfterEveryGate ==
    (Finished /\ last.err = NoError) =>
        /\ ~IDMismatch
        /\ ParseCredentialCreationResponse(last.response).err = NoError
        /\ last.verifierRan
        /\ Verify(last.response.clientData, last.session.Challenge,
                  AssertCeremony, ConfigOrigin).err = NoError

\* C5: after a successful BeginLogin the Challenge of the returned
\* SessionData equals the Challenge of the returned request options,
\* whatever the option modifiers were.
C5_SessionChallengeIsOptionsChallenge ==
    (last.op = "BeginLogin" /\ last.err = NoError) =>
        last.sessionData.Challenge = last.options.Challenge

\* C6: once FinishLogin has returned for a session, with or without an
\* error, that session is no longer in the store, so no second FinishLogin
\* can be run on it.
C6_SessionSingleUse ==
    Finished => last.session \notin sessions

\* C9: when user.WebAuthnID() differs from session.UserID the request body
\* is never parsed.
C9_NoParsingOnIDMismatch ==
    (Finished /\ IDMismatch) => ~last.parserRan

\* C10: when the IDs match and the request does not parse, FinishLogin
\* returns a BadRequest error that carries the parse failure as its cause,
\* returns no credential and does not run the client data verifier.
C10_ParseFailureIsBadRequestWithCause ==
    LET parsing == ParseCredentialCreationResponse(last.response)
    IN (Finished /\ ~IDMismatch /\ parsing.err # NoError) =>
        /\ last.err.type = "ErrBadRequest"
        /\ \/ last.err.details = parsing.err.details
           \/ \E i \in 1..Len(last.err.info) : last.err.info[i] = parsing.err
           \/ \E i \in 1..Len(last.err.info) :
                  \E j \in 1..Len(parsing.err.info) :
                      last.err.info[i] = parsing.err.info[j]
        /\ last.credential = NoCredential
        /\ ~last.verifierRan

\* ------------------------------------------------------------------------
\* Properties of Verify (SpecVerify)
\* ------------------------------------------------------------------------
Ran == result # NotRun

Accepted == Ran /\ result.err = NoError

TypeMatches == call.c.Type = call.ceremony

\* the call got past the ceremony-type and challenge gates
ReachedOriginGate ==
    /\ Ran
    /\ result.err # Panic
    /\ result.err.details \notin {"Error validating ceremony type",
                                  "Error parsing the authenticator challenge",
                                  "Error validating challenge"}

IsOriginMismatch(err) ==
    err.type = "ErrVerification" /\ err.details = "Error validating origin"

\* scheme, host and port of an origin text
SchemeHostPort(origin) ==
    LET u == Parse(origin) IN <<u.Scheme, Hostname(u), Port(u)>>

\* the origin of a Relying Party configured by its hostname: https on the
\* default port
ConfiguredOrigin(relyingPartyOrigin) == <<https, relyingPartyOrigin, <<>>>>

\* C3: with type and origin matching, Verify accepts exactly when the bytes
\* decoded from the client challenge text equal the stored challenge.
C3_AcceptsIffDecodedChallengeEqual ==
    LET decoded == RawStdDecodeString(call.c.Challenge)
        origin == Parse(call.c.Origin)
    IN (/\ Ran
        /\ TypeMatches
        /\ origin.ok
        /\ Hostname(origin) = call.relyingPartyOrigin) =>
            (Accepted <=> (decoded.ok /\ decoded.bytes = call.storedChallenge))

\* C4: when the client data's Type differs from the expected ceremony type,
\* Verify returns the ceremony-type error whatever the challenge and origin
\* are.
C4_TypeMismatchFirst ==
    (Ran /\ ~TypeMatches) =>
        /\ result.err.type = "ErrVerification"
        /\ result.err.details = "Error validating ceremony type"

\* a call with the wrong type whose challenge text does not decode and whose
\* origin does not parse has returned
C4_Witness ==
    /\ Ran
    /\ ~TypeMatches
    /\ ~RawStdDecodeString(call.c.Challenge).ok
    /\ ~Parse(call.c.Origin).ok

\* C7: past the type and challenge gates, every client origin whose scheme,
\* host or port differs from the configured origin is rejected with the
\* origin-mismatch error.
C7_SchemeHostPortCompared ==
    (/\ ReachedOriginGate
     /\ Parse(call.c.Origin).ok
     /\ SchemeHostPort(call.c.Origin) # ConfiguredOrigin(call.relyingPartyOrigin)) =>
        IsOriginMismatch(result.err)

\* the call's result when the origin is replaced
WithOrigin(origin) ==
    Verify([call.c EXCEPT !.Origin = origin], call.storedChallenge,
           call.ceremony, call.relyingPartyOrigin)

Began == last.op = "BeginLogin"

C12_GeneratorFailureAborts ==
    /\ (Began /\ last.created.err # NoError) =>
           /\ last.err = last.created.err
           /\ last.options = NoOptions
           /\ last.sessionData = EmptySessionData
           /\ last.applied = 0
    /\ \A s \in sessions : s.Challenge # <<>>

\* a BeginLogin with modifiers whose generator failed, with a session of an
\* earlier ceremony in the store
C12_Witness ==
    /\ Began
    /\ last.created.err # NoError
    /\ last.opts # <<>>
    /\ sessions # {}

\* ------------------------------------------------------------------------
\* Further properties of Verify (SpecVerify)
\* ------------------------------------------------------------------------
IsChallengeMismatch(err) ==
    err.type = "ErrVerification" /\ err.details = "Error validating challenge"

IsMalformedChallenge(err) ==
    err.type = "ErrParsingData"
    /\ err.details = "Error parsing the authenticator challenge"

\* the call's result when the stored challenge is replaced
WithStoredChallenge(stored) ==
    Verify(call.c, stored, call.ceremony, call.relyingPartyOrigin)

\* C14: what Verify returns and prints on a challenge mismatch does not
\* depend on the challenge bytes: two stored challenges that both mismatch
\* the same client challenge give the same error and the same output.
C14_MismatchErrorHidesChallenge ==
    (Ran /\ IsChallengeMismatch(result.err)) =>
        \A stored \in StoredChallenges :
            IsChallengeMismatch(WithStoredChallenge(stored).err) =>
                WithStoredChallenge(stored) = result

\* C16: Verify always returns, nil or an error; it never panics.
C16_VerifyReturns ==
    Ran => result.err # Panic

\* the client challenge text decodes to the stored challenge
ChallengeRight ==
    LET decoded == RawStdDecodeString(call.c.Challenge)
    IN decoded.ok /\ decoded.bytes = call.storedChallenge

\* C17: with the type matching, a client challenge text that does not
\* decode gives the malformed-challenge error, and one that decodes to
\* other bytes than the stored challenge gives the challenge-mismatch error.
C17_MalformedAndMismatchDistinguished ==
    LET decoded == RawStdDecodeString(call.c.Challenge)
    IN (Ran /\ TypeMatches) =>
        /\ ~decoded.ok => IsMalformedChallenge(result.err)
        /\ (decoded.ok /\ decoded.bytes # call.storedChallenge)
               => IsChallengeMismatch(result.err)

\* the client origin parses and has the configured hostname
OriginRight ==
    /\ Parse(call.c.Origin).ok
    /\ Hostname(Parse(call.c.Origin)) = call.relyingPartyOrigin

IsOriginError(err) ==
    \/ IsOriginMismatch(err)
    \/ /\ err.type = "ErrParsingData"
       /\ err.details = "Error decoding clientData origin as URL"

\* C18: the gates run in the order type, challenge, origin: with the type
\* matching and both challenge and origin wrong the challenge error is
\* returned, and an origin error is returned only with type and challenge
\* right.
C18_GatesInOrder ==
    Ran =>
        /\ (TypeMatches /\ ~ChallengeRight /\ ~OriginRight) =>
               (IsChallengeMismatch(result.err) \/ IsMalformedChallenge(result.err))
        /\ IsOriginError(result.err) => (TypeMatches /\ ChallengeRight)

\* the call's result when the token binding is replaced
WithTokenBinding(tb) ==
    Verify([call.c EXCEPT !.TokenBinding = tb], call.storedChallenge,
           call.ceremony, call.relyingPartyOrigin)

\* C20: client data that differ only in TokenBinding get the same result.
C20_TokenBindingIsNoGate ==
    Ran => \A tb \in TokenBindings : WithTokenBinding(tb) = result

\* a call with a present token binding passed every gate
C20_Witness ==
    /\ Accepted
    /\ call.c.TokenBinding.set
    /\ call.c.TokenBinding.Status = Present
    /\ call.storedChallenge # <<>>

\* C19: the parser FinishLogin runs on the request is the parser of
\* assertion (login) responses, not the parser of registration responses.
C19_AssertionParserUsed ==
    (Finished /\ last.parserRan) => last.parser.ceremony = AssertCeremony

\* ------------------------------------------------------------------------
\* Two ceremonies side by side, each call taken statement by statement
\* (login.go:17-52); every variable of a call is local to it
\* ------------------------------------------------------------------------
\* request bodies of the ceremonies run side by side
SideBySideResponses ==
    {[shape |-> "malformed", clientData |-> <<>>]}
    \cup {[shape |-> sh,
           clientData |-> [Type |-> AssertCeremony,
                           Challenge |-> RawURLEncode(<<0>>),
                           Origin |-> GoodOrigin,
                           TokenBinding |-> NoTokenBinding]] :
             sh \in {"attestation", "assertion"}}

\* the user each ceremony is begun for
UserOf(p) == [id |-> <<p>>]

InsideCall(q) == procs[q].pc \notin {"idle", "begun", "finished"}

\* ceremony p moves to the local state next; it is noted when the other
\* ceremony is inside a call at that moment
Step(p, next) ==
    /\ procs' = [procs EXCEPT ![p] =
                    [next EXCEPT !.overlapped =
                        @ \/ \E q \in Procs \ {p} : InsideCall(q)]]
    /\ UNCHANGED <<sessions, last, call, result>>

\* the challenge line 33 reads, as it would be if the challenge were shared
\* between the ceremonies and the other one's were read
SessionChallengeOfOther(p) ==
    procs[CHOOSE q \in Procs : q # p].created.challenge

\* the challenge line 33 reads: the local variable of the call
SessionChallenge(p) == procs[p].created.challenge

\* BeginLogin(user, opts...) is called
CallBeginLogin(p, opts) ==
    /\ procs[p].pc = "idle"
    /\ Step(p, [procs[p] EXCEPT !.pc = "create", !.user = UserOf(p), !.opts = opts])

\* lines 18-21: challenge, err := p.CreateChallenge(), return on error
CreateChallengeStep(p) ==
    /\ procs[p].pc = "create"
    /\ \E created \in CreateChallengeOutcomes :
          IF created.err # NoError
          THEN Step(p, [procs[p] EXCEPT
                   !.pc = "begun", !.created = created,
                   !.ret = [options |-> NoOptions, sessionData |-> EmptySessionData,
                            err |-> created.err, applied |-> 0]])
          ELSE Step(p, [procs[p] EXCEPT !.pc = "options", !.created = created])

\* lines 23-26: the request options with the challenge and the timeout
BuildOptionsStep(p) ==
    /\ procs[p].pc = "options"
    /\ Step(p, [procs[p] EXCEPT
           !.pc = "setters", !.i = 1,
           !.requestOptions = [Challenge |-> procs[p].created.challenge,
                               Timeout |-> ConfigTimeout, set |-> TRUE]])

\* lines 28-30: one round of the loop over the setters
SetterStep(p) ==
    /\ procs[p].pc = "setters"
    /\ IF procs[p].i <= Len(procs[p].opts)
       THEN Step(p, [procs[p] EXCEPT
                !.i = @ + 1,
                !.requestOptions = ApplyOption(procs[p].opts[procs[p].i], @)])
       ELSE Step(p, [procs[p] EXCEPT !.pc = "session"])

\* lines 32-37: the session data is built and the call returns
BuildSessionStep(p) ==
    LET sessionData == [Challenge |-> SessionChallenge(p),
                        UserID |-> WebAuthnID(procs[p].user)]
    IN /\ procs[p].pc = "session"
       /\ Step(p, [procs[p] EXCEPT
              !.pc = "begun", !.issued = sessionData,
              !.ret = [options |-> procs[p].requestOptions,
                       sessionData |-> sessionData, err |-> NoError,
                       applied |-> procs[p].i - 1]])

\* FinishLogin(user, session, response) is called with the session the
\* ceremony's own BeginLogin returned
CallFinishLogin(p, user, response) ==
    /\ procs[p].pc = "begun"
    /\ procs[p].ret.err = NoError
    /\ Step(p, [Idle EXCEPT !.pc = "check", !.user = user,
                            !.created = procs[p].created,
                            !.issued = procs[p].issued,
                            !.session = procs[p].issued,
                            !.response = response,
                            !.overlapped = procs[p].overlapped])

\* lines 41-43: the ID check, whose error is dropped
CheckIDStep(p) ==
    /\ procs[p].pc = "check"
    /\ Step(p, [procs[p] EXCEPT
           !.pc = "parse",
           !.dropped = IF WebAuthnID(procs[p].user) # procs[p].session.UserID
                       THEN Error("ErrBadRequest",
                                  "ID mismatch for User and Session", <<>>)
                       ELSE NoError])

\* line 45: the request is parsed
ParseStep(p) ==
    /\ procs[p].pc = "parse"
    /\ Step(p, [procs[p] EXCEPT
           !.pc = "return",
           !.parsing = ParseCredentialCreationResponse(procs[p].response)])

\* lines 46-51: the call prints and returns
ReturnStep(p) ==
    /\ procs[p].pc = "return"
    /\ Step(p, [procs[p] EXCEPT
           !.pc = "finished",
           !.ret = IF procs[p].parsing.err # NoError
                   THEN [credential |-> NoCredential,
                         err |-> Error("ErrBadRequest", "fuddck", <<>>),
                         dropped |-> procs[p].dropped,
                         printed |-> <<procs[p].parsing.err>>,
                         parserRan |-> TRUE, parser |-> ResponseParser,
                         verifierRan |-> FALSE]
                   ELSE [credential |-> NoCredential, err |-> NoError,
                         dropped |-> procs[p].dropped,
                         printed |-> <<procs[p].parsing.parsed>>,
                         parserRan |-> TRUE, parser |-> ResponseParser,
                         verifierRan |-> FALSE]])

NextSideBySide ==
    \E p \in Procs :
        \/ \E opts \in SeqsUpTo(LoginOptions, MaxOpts) : CallBeginLogin(p, opts)
        \/ CreateChallengeStep(p)
        \/ BuildOptionsStep(p)
        \/ SetterStep(p)
        \/ BuildSessionStep(p)
        \/ \E user \in Users, response \in SideBySideResponses :
               CallFinishLogin(p, user, response)
        \/ CheckIDStep(p)
        \/ ParseStep(p)
        \/ ReturnStep(p)

SpecSideBySide == Init /\ [][NextSideBySide]_vars

\* C13: however the calls of two ceremonies are interleaved, each
\* BeginLogin and each FinishLogin returns what it returns when run alone
\* on the same arguments, and each FinishLogin works on the session its own
\* ceremony was issued.
C13_CeremoniesIndependent ==
    \A p \in Procs :
        /\ procs[p].pc = "begun" =>
               procs[p].ret = BeginLoginResult(procs[p].user, procs[p].opts,
                                               procs[p].created)
        /\ procs[p].pc = "finished" =>
               /\ procs[p].session = procs[p].issued
               /\ procs[p].session.Challenge = procs[p].created.challenge
               /\ procs[p].ret = FinishLoginResult(procs[p].user, procs[p].session,
                                                   procs[p].response)

\* both ceremonies have finished, on different sessions, and each took
\* steps while the other was inside a call
C13_Witness ==
    /\ \A p \in Procs : procs[p].pc = "finished" /\ procs[p].overlapped
    /\ procs[1].session # procs[2].session
    /\ procs[1].session.Challenge # procs[2].session.Challenge

====
